---- MODULE Spec2Model ----
(***************************************************************************)
(* Model of pywolt's transport layer (src/pywolt/transport.py):            *)
(*   Throttler              - sliding-window admission gate                *)
(*   RateLimitedTransport   - retry-on-429 wrapper around a transport      *)
(*                                                                         *)
(* Time is counted in ticks; one second is Second ticks.  time.time() is   *)
(* the variable now.  time.sleep(d) returns after at least d ticks; its    *)
(* lateness is drawn from 0..MaxLate, and so is the duration of a request. *)
(***************************************************************************)
EXTENDS Integers, Sequences, FiniteSets, TLC

\* ---- bounds of the model -------------------------------------------------
Second == 2                \* ticks per second (clock resolution)
MaxCallsPerSecond == 2     \* calls_per_second ranges over 1..MaxCallsPerSecond
MaxMinInterval == 2        \* min_interval ranges over 0..MaxMinInterval ticks
MaxMaxAttempts == 2        \* max_attempts ranges over 0..MaxMaxAttempts
MaxWaitTime == 1           \* wait_time ranges over 0..MaxWaitTime ticks
MaxLate == 1               \* extra delay of one sleep / one request
MaxAdmitted == 3           \* acquires per behaviour
MaxClock == 3              \* idle ticks are taken while now < MaxClock

\* ---- program constants ---------------------------------------------------
TooManyRequests == 429     \* httpx.codes.TOO_MANY_REQUESTS

Statuses == {200, TooManyRequests, 503}
Threads == {1, 2}

VARIABLES
    calls_per_second,  \* Throttler.calls_per_second
    min_interval,      \* Throttler.min_interval (ticks)
    max_attempts,      \* RateLimitedTransport.max_attempts
    wait_time,         \* RateLimitedTransport.wait_time (ticks)
    now,               \* time.time()
    history,           \* Throttler.history (deque, left end first)
    admitted,          \* every timestamp ever appended to history, in order
    acq,               \* the __enter__ just completed: entry time, history
                       \* before it, sleeps made, ticks slept on request,
                       \* extra delay suffered
    pc,                \* position of the single caller in handle_request
    attempt,           \* handle_request's attempt argument
    response,          \* local variable response of handle_request
    result,            \* value returned to the caller
    error,             \* exception that left handle_request
    log,               \* events of the current handle_request call
    sent,              \* calls of the wrapped transport since construction
    tpc,               \* concurrent callers: position inside __enter__
    cur_time,          \* concurrent callers: local cur_time
    sleep_time,        \* concurrent callers: local sleep_time
    wake,              \* concurrent callers: time the pending sleep ends
    serial             \* concurrent callers: whole acquires are serialized

cfg == <<calls_per_second, min_interval, max_attempts, wait_time>>
tvars == <<pc, attempt, response, result, error, log, sent>>
cvars == <<tpc, cur_time, sleep_time, wake, serial>>
vars == <<cfg, now, history, admitted, acq, tvars, cvars>>

\* ---- helpers -------------------------------------------------------------
Max(a, b) == IF a >= b THEN a ELSE b
Min(a, b) == IF a <= b THEN a ELSE b
Last(s) == s[Len(s)]
LastN(s, n) == SubSeq(s, Len(s) - n + 1, Len(s))
NonDecreasing(s) == \A i \in 1..(Len(s) - 1) : s[i] <= s[i + 1]

NoResponse == [status |-> 0, seq |-> 0]      \* response not bound yet
NoAcq == [e |-> 0, before |-> <<>>, sleeps |-> 0, slept |-> 0, late |-> 0]
Event(ev, status) == [ev |-> ev, status |-> status]
Events(kind) == {i \in 1..Len(log) : log[i].ev = kind}
Sends == Events("send") \cup Events("raise")

\* ---- Throttler -----------------------------------------------------------
\* variants of the definitions below, each with one plausible slip
MinIntervalSleep_Oldest(h, t, m) ==
    IF m > 0 /\ t - Head(h) < m THEN m - (t - Head(h)) ELSE 0
MinIntervalSleep_Full(h, t, m) ==
    IF m > 0 /\ t - Last(h) < m THEN m ELSE 0
RateCapFull_Strict(h, k) == Len(h) > k
RateCapSleep_NoSecond(last_time, cur) == last_time - cur
Exit_Clear(h) == <<>>
ExitSuppresses_True == TRUE
HandleRequestEntry_Unthrottled == "send"
ShouldRetry_Inclusive(status, att, n) == status = TooManyRequests /\ att <= n
ShouldRetry_AnyError(status, att, n) == status >= 400 /\ att < n

\* lines 18-21: the duration of the minimum-spacing sleep (0: no sleep)
MinIntervalSleep(h, t, m) ==
    IF m > 0 /\ t - Last(h) < m THEN m - (t - Last(h)) ELSE 0

\* line 24: the loop test of the rate-cap check
RateCapFull(h, k) == Len(h) >= k

\* line 26: sleep_time computed from an evicted timestamp
RateCapSleep(last_time, cur) == last_time + Second - cur

\* lines 24-26: the eviction loop; yields <<history, sleep_time>>.  With
\* k >= 1 a full history is never empty, so popleft cannot fail here.
RECURSIVE Drain(_, _, _, _)
Drain(h, k, cur, st) ==
    IF RateCapFull(h, k) /\ h # <<>>
    THEN Drain(Tail(h), k, cur, RateCapSleep(Head(h), cur))
    ELSE <<h, st>>

\* lines 32-33: __exit__ has an empty body: the history is left alone ...
Exit(h) == h
\* ... and it returns None, so an exception in the with-body is not suppressed
ExitSuppresses == FALSE

\* time.sleep(d) entered at time t returns at t + d + late
Sleep(t, d, late) == t + d + late

\* lines 13-30: the whole of __enter__ for one caller.  l1 is the lateness of
\* the sleep of line 21, l2 of the sleep of line 28; a sleep that is not
\* made takes no time.
EnterResult(h, t, k, m, l1, l2) ==
    IF h = <<>>
    THEN [history |-> <<t>>, now |-> t, sleeps |-> 0, slept |-> 0, late |-> 0]
    ELSE LET s1 == MinIntervalSleep(h, t, m)
             t1 == IF s1 > 0 THEN Sleep(t, s1, l1) ELSE t
             dr == Drain(h, k, t1, 0)
             s2 == IF dr[2] > 0 THEN dr[2] ELSE 0
             t2 == IF s2 > 0 THEN Sleep(t1, s2, l2) ELSE t1
         IN  [history |-> Append(dr[1], t2), now |-> t2,
              sleeps |-> (IF s1 > 0 THEN 1 ELSE 0) + (IF s2 > 0 THEN 1 ELSE 0),
              slept |-> s1 + s2,
              late |-> (IF s1 > 0 THEN l1 ELSE 0) + (IF s2 > 0 THEN l2 ELSE 0)]

\* ---- RateLimitedTransport ------------------------------------------------
\* lines 43-44: handle_request starts by entering the throttler
HandleRequestEntry == "enter"

\* line 47: the retry test
ShouldRetry(status, att, n) == status = TooManyRequests /\ att < n

Init ==
    /\ calls_per_second \in 1..MaxCallsPerSecond
    /\ min_interval \in 0..MaxMinInterval
    /\ max_attempts \in 0..MaxMaxAttempts
    /\ wait_time \in 0..MaxWaitTime
    /\ now = 0
    /\ history = <<>>
    /\ admitted = <<>>
    /\ acq = NoAcq
    /\ pc = "idle"
    /\ attempt = 0
    /\ response = NoResponse
    /\ result = NoResponse
    /\ error = "none"
    /\ log = <<>>
    /\ sent = 0
    /\ tpc = [t \in Threads |-> "out"]
    /\ cur_time = [t \in Threads |-> 0]
    /\ sleep_time = [t \in Threads |-> 0]
    /\ wake = [t \in Threads |-> 0]
    /\ serial = TRUE

\* the caller does something else for one tick
Tick ==
    /\ pc = "idle"
    /\ now < MaxClock
    /\ now' = now + 1
    /\ UNCHANGED <<cfg, history, admitted, acq, tvars, cvars>>

\* line 43: the client calls handle_request(request) (attempt defaults to 0)
Call ==
    /\ pc = "idle"
    /\ Len(admitted) + max_attempts + 1 <= MaxAdmitted
    /\ pc' = HandleRequestEntry
    /\ UNCHANGED <<cfg, now, history, admitted, acq, attempt, response, result,
                   error, log, sent, cvars>>

\* line 44, Throttler.__enter__ (lines 13-30)
Enter ==
    /\ pc = "enter"
    /\ \E l1, l2 \in 0..MaxLate :
         LET r == EnterResult(history, now, calls_per_second, min_interval, l1, l2)
         IN  /\ history' = r.history
             /\ now' = r.now
             /\ admitted' = Append(admitted, r.now)
             /\ acq' = [e |-> now, before |-> history,
                        sleeps |-> r.sleeps, slept |-> r.slept,
                        late |-> r.late]
    /\ pc' = "send"
    /\ log' = Append(log, Event("acquire", 0))
    /\ UNCHANGED <<cfg, attempt, response, result, error, sent, cvars>>

\* line 45 and the end of the with block (Throttler.__exit__, lines 32-33):
\* the wrapped transport answers with a status or raises
Send ==
    /\ pc = "send"
    /\ \E d \in 0..MaxLate : now' = now + d
    /\ history' = Exit(history)
    /\ sent' = sent + 1
    /\ \/ \E s \in Statuses :
            /\ response' = [status |-> s, seq |-> Cardinality(Sends) + 1]
            /\ log' = Append(log, Event("send", s))
            /\ pc' = "check"
            /\ error' = error
       \/ /\ log' = Append(log, Event("raise", 0))
          /\ response' = NoResponse
          /\ IF ExitSuppresses
             THEN pc' = "check" /\ error' = error
             ELSE pc' = "raised" /\ error' = "TransportError"
    /\ acq' = NoAcq
    /\ UNCHANGED <<cfg, admitted, attempt, result, cvars>>

\* lines 47-49: a 429 with attempts left: sleep wait_time, call again (the
\* time the sleep takes beyond wait_time is part of the next Enter's gap)
Retry ==
    /\ pc = "check"
    /\ response # NoResponse
    /\ ShouldRetry(response.status, attempt, max_attempts)
    /\ now' = now + wait_time
    /\ attempt' = attempt + 1
    /\ log' = Append(log, Event("wait", 0))
    /\ pc' = HandleRequestEntry
    /\ UNCHANGED <<cfg, history, admitted, acq, response, result, error, sent,
                   cvars>>

\* lines 47, 51: anything else is returned (reading an unbound response
\* raises UnboundLocalError)
Return ==
    /\ pc = "check"
    /\ IF response = NoResponse
       THEN /\ pc' = "raised"
            /\ error' = "UnboundLocalError"
            /\ result' = result
       ELSE /\ ~ShouldRetry(response.status, attempt, max_attempts)
            /\ pc' = "done"
            /\ result' = response
            /\ error' = error
    /\ UNCHANGED <<cfg, now, history, admitted, acq, attempt, response, log, sent,
                   cvars>>

\* the caller has the response (or the exception) and goes on
Finish ==
    /\ pc \in {"done", "raised"}
    /\ pc' = "idle"
    /\ attempt' = 0
    /\ response' = NoResponse
    /\ result' = NoResponse
    /\ error' = "none"
    /\ log' = <<>>
    /\ UNCHANGED <<cfg, now, history, admitted, acq, sent, cvars>>

Next == Tick \/ Call \/ Enter \/ Send \/ Retry \/ Return \/ Finish

Spec == Init /\ [][Next]_vars

(***************************************************************************)
(* Two callers inside Throttler.__enter__ at once, one statement at a      *)
(* time (the code takes no lock).  With serial = TRUE a caller enters only *)
(* when no other caller is inside, which is the discipline of a caller-    *)
(* side lock around the whole acquire.                                     *)
(***************************************************************************)
InitC ==
    /\ calls_per_second \in 1..MaxCallsPerSecond
    /\ min_interval \in 0..MaxMinInterval
    /\ max_attempts = 0
    /\ wait_time = 0
    /\ now = 0
    /\ history = <<>>
    /\ admitted = <<>>
    /\ acq = NoAcq
    /\ pc = "idle"
    /\ attempt = 0
    /\ response = NoResponse
    /\ result = NoResponse
    /\ error = "none"
    /\ log = <<>>
    /\ sent = 0
    /\ tpc = [t \in Threads |-> "out"]
    /\ cur_time = [t \in Threads |-> 0]
    /\ sleep_time = [t \in Threads |-> 0]
    /\ wake = [t \in Threads |-> 0]
    /\ serial \in BOOLEAN

Inside == {t \in Threads : tpc[t] \notin {"out", "raised"}}
Goto(t, l) == tpc' = [tpc EXCEPT ![t] = l]
shared == <<cfg, acq, tvars, serial>>

\* time passes
TickC ==
    /\ \/ now < MaxClock
       \/ \E t \in Threads : tpc[t] \in {"l21", "l28"} /\ wake[t] > now
    /\ now' = now + 1
    /\ UNCHANGED <<shared, history, admitted, tpc, cur_time, sleep_time, wake>>

\* line 13: a caller enters the with statement
Begin(t) ==
    /\ tpc[t] \in {"out", "raised"}
    /\ serial => Inside = {}
    /\ Len(admitted) + Cardinality(Inside) < MaxAdmitted
    /\ Goto(t, "l14")
    /\ UNCHANGED <<shared, now, history, admitted, cur_time, sleep_time, wake>>

\* line 14: if not self.history
TestEmpty(t) ==
    /\ tpc[t] = "l14"
    /\ Goto(t, IF history = <<>> THEN "l15" ELSE "l18")
    /\ UNCHANGED <<shared, now, history, admitted, cur_time, sleep_time, wake>>

\* lines 15-16: record the first call and return
AppendFirst(t) ==
    /\ tpc[t] = "l15"
    /\ history' = Append(history, now)
    /\ admitted' = Append(admitted, now)
    /\ Goto(t, "out")
    /\ UNCHANGED <<shared, now, cur_time, sleep_time, wake>>

\* lines 18-21: the minimum-spacing test; history[-1] of a deque emptied by
\* the other caller raises IndexError
TestInterval(t) ==
    /\ tpc[t] = "l18"
    /\ IF min_interval > 0 /\ history = <<>>
       THEN Goto(t, "raised") /\ wake' = wake
       ELSE LET d == IF min_interval > 0
                     THEN MinIntervalSleep(history, now, min_interval)
                     ELSE 0
            IN  IF d > 0
                THEN Goto(t, "l21") /\ wake' = [wake EXCEPT ![t] = now + d]
                ELSE Goto(t, "l23") /\ wake' = wake
    /\ UNCHANGED <<shared, now, history, admitted, cur_time, sleep_time>>

\* line 21: time.sleep returns
WakeInterval(t) ==
    /\ tpc[t] = "l21"
    /\ now >= wake[t]
    /\ Goto(t, "l23")
    /\ UNCHANGED <<shared, now, history, admitted, cur_time, sleep_time, wake>>

\* lines 22-23: sleep_time = 0; cur_time = time.time()
ReadClock(t) ==
    /\ tpc[t] = "l23"
    /\ sleep_time' = [sleep_time EXCEPT ![t] = 0]
    /\ cur_time' = [cur_time EXCEPT ![t] = now]
    /\ Goto(t, "l24")
    /\ UNCHANGED <<shared, now, history, admitted, wake>>

\* line 24: while len(self.history) >= self.calls_per_second
TestFull(t) ==
    /\ tpc[t] = "l24"
    /\ Goto(t, IF RateCapFull(history, calls_per_second) THEN "l25" ELSE "l27")
    /\ UNCHANGED <<shared, now, history, admitted, cur_time, sleep_time, wake>>

\* lines 25-26: popleft (IndexError on an empty deque) and sleep_time
PopLeft(t) ==
    /\ tpc[t] = "l25"
    /\ IF history = <<>>
       THEN Goto(t, "raised") /\ UNCHANGED <<history, sleep_time>>
       ELSE /\ history' = Tail(history)
            /\ sleep_time' = [sleep_time EXCEPT
                                ![t] = RateCapSleep(Head(history), cur_time[t])]
            /\ Goto(t, "l24")
    /\ UNCHANGED <<shared, now, admitted, cur_time, wake>>

\* lines 27-28: if sleep_time > 0: time.sleep(sleep_time)
TestSleep(t) ==
    /\ tpc[t] = "l27"
    /\ IF sleep_time[t] > 0
       THEN Goto(t, "l28") /\ wake' = [wake EXCEPT ![t] = now + sleep_time[t]]
       ELSE Goto(t, "l29") /\ wake' = wake
    /\ UNCHANGED <<shared, now, history, admitted, cur_time, sleep_time>>

\* line 28: time.sleep returns
WakeRateCap(t) ==
    /\ tpc[t] = "l28"
    /\ now >= wake[t]
    /\ Goto(t, "l29")
    /\ UNCHANGED <<shared, now, history, admitted, cur_time, sleep_time, wake>>

\* lines 29-30: record the call and return
AppendNow(t) ==
    /\ tpc[t] = "l29"
    /\ history' = Append(history, now)
    /\ admitted' = Append(admitted, now)
    /\ Goto(t, "out")
    /\ UNCHANGED <<shared, now, cur_time, sleep_time, wake>>

NextC ==
    \/ TickC
    \/ \E t \in Threads :
         \/ Begin(t) \/ TestEmpty(t) \/ AppendFirst(t) \/ TestInterval(t)
         \/ WakeInterval(t) \/ ReadClock(t) \/ TestFull(t) \/ PopLeft(t)
         \/ TestSleep(t) \/ WakeRateCap(t) \/ AppendNow(t)

SpecC == InitC /\ [][NextC]_vars

(***************************************************************************)
(* Properties of the Throttler, one caller at a time (Spec)                *)
(***************************************************************************)
\* the (i+k)-th admitted timestamp is at least one second after the i-th
Spaced(a, k) == \A i \in 1..Len(a) : i + k <= Len(a) => a[i + k] - a[i] >= Second
\* the admitted timestamps in the window (t - 1 second, t]
InWindow(a, t) == {i \in 1..Len(a) : t - Second < a[i] /\ a[i] <= t}
\* a state right after __enter__ returned from its second branch
Acquired == pc = "send" /\ acq.before # <<>>
\* the entries the acquire just completed removed from the history
EvictedCount == Len(acq.before) + 1 - Len(history)
\* the earliest time both limits allow a caller entering at e
Earliest(e, before, k, m) ==
    IF before = <<>> THEN e
    ELSE LET spacing == Max(e, Last(before) + m)
         IN  IF Len(before) >= k
             THEN Max(spacing, before[Len(before) - k + 1] + Second)
             ELSE spacing

\* C1: with calls_per_second = k >= 1 and one caller at a time, every
\* trailing one-second window (t-1, t] holds at most k admitted timestamps;
\* equivalently the (i+k)-th admitted timestamp is at least one second later
\* than the i-th.
C1_RateCap ==
    /\ Spaced(admitted, calls_per_second)
    /\ \A t \in 0..now : Cardinality(InWindow(admitted, t)) <= calls_per_second

\* C1 witness: more than k calls were admitted and the last one had to sleep
\* for the rate cap alone.
C1_Witness ==
    /\ pc = "send"
    /\ min_interval = 0
    /\ Len(admitted) > calls_per_second
    /\ acq.sleeps = 1
    /\ Len(acq.before) = calls_per_second

\* C2: with min_interval = m > 0, consecutive recorded timestamps differ by
\* at least m, whichever wait the later acquire performed.
C2_MinSpacing ==
    min_interval > 0 =>
        \A i \in 1..(Len(admitted) - 1) : admitted[i + 1] - admitted[i] >= min_interval

\* C2 witness: an acquire that performed the minimum-spacing sleep and then
\* the rate-cap sleep, and recorded a timestamp after both.
C2_Witness ==
    /\ pc = "send"
    /\ min_interval > 0
    /\ acq.sleeps = 2
    /\ Len(admitted) >= 2

\* C7 as stated: when acquire records a new timestamp, every entry retained
\* in the history is at most one second older than the current time.
C7_Original ==
    pc = "send" => \A i \in 1..Len(history) : now - history[i] <= Second

\* C7 amended: eviction is by count.  An acquire evicts only when the history
\* already holds calls_per_second entries; when it records the new timestamp
\* the history is non-decreasing and every entry it evicted is at least one
\* second older than the new timestamp (retained entries may be older).
C7_Amended ==
    /\ NonDecreasing(history)
    /\ Acquired =>
         /\ EvictedCount >= 0
         /\ EvictedCount > 0 => Len(acq.before) >= calls_per_second
         /\ \A j \in 1..EvictedCount : now - acq.before[j] >= Second
         /\ \A j \in 1..(Len(history) - 1) : history[j] = acq.before[j + EvictedCount]

\* C7 witness: an acquire evicted an entry and retained one that is more
\* than one second older than the new timestamp.
C7_Witness ==
    /\ Acquired
    /\ EvictedCount = 1
    /\ \E i \in 1..Len(history) : now - history[i] > Second

\* C9: the recorded timestamp is the earliest time both limits allow:
\* e on an empty history, else max(e, newest + m, x + 1 second) with the last
\* term only when k calls are recorded (x the k-th most recent).  Time the
\* clock adds beyond the requested sleeps (acq.late) is the only other
\* contribution; the requested sleep never exceeds max(m, 1 second) and is
\* zero when neither limit requires a wait.
C9_EarliestAdmission ==
    pc = "send" =>
        LET want == Earliest(acq.e, acq.before, calls_per_second, min_interval)
        IN  /\ now = acq.e + acq.slept + acq.late
            /\ now >= want
            /\ acq.late = 0 => now = want
            /\ acq.slept <= Max(min_interval, Second)
            /\ want = acq.e => acq.slept = 0 /\ acq.sleeps = 0 /\ now = acq.e
            /\ acq.before = <<>> => now = acq.e

\* C9 witness: calls_per_second = 2, min_interval = 0, three calls entered at
\* t = 0: admitted at 0, 0 and one second.
C9_Witness ==
    /\ pc = "send"
    /\ calls_per_second = 2
    /\ min_interval = 0
    /\ acq.e = 0
    /\ acq.late = 0
    /\ admitted = <<0, 0, Second>>

\* C10: after the n-th acquire the history is the most recent min(n, k)
\* admitted timestamps in admission order: never longer than k, never empty
\* after the first acquire, an acquire removes at most the oldest entry, and
\* __exit__ leaves the history unchanged.
C10_HistoryIsSuffix ==
    /\ history = LastN(admitted, Min(Len(admitted), calls_per_second))
    /\ Len(history) <= calls_per_second
    /\ admitted # <<>> => history # <<>>
    /\ pc = "send" =>
         history = Append(IF Len(acq.before) >= calls_per_second
                          THEN Tail(acq.before) ELSE acq.before, now)

\* C10 witness: the with block was left after an acquire that evicted the
\* oldest of k >= 2 entries.
C10_Witness ==
    /\ pc = "check"
    /\ calls_per_second >= 2
    /\ Len(admitted) > calls_per_second
    /\ Len(history) = calls_per_second

(***************************************************************************)
(* Properties of RateLimitedTransport.handle_request (Spec)                *)
(***************************************************************************)
Count(kind) == Cardinality(Events(kind))
\* every answer of the wrapped transport in this call was a 429
AllTooManyRequests ==
    /\ Events("raise") = {}
    /\ \A i \in Events("send") : log[i].status = TooManyRequests

\* C3: when every attempt is answered 429, handle_request with
\* max_attempts = n calls the wrapped transport exactly n+1 times, waits
\* exactly n times and returns the last 429 without raising; nothing follows
\* the (n+1)-th response.
C3_ExhaustedRetries ==
    /\ Count("send") + Count("raise") <= max_attempts + 1
    /\ Count("wait") <= max_attempts
    /\ AllTooManyRequests =>
         /\ pc # "raised"
         /\ error = "none"
         /\ Count("send") = max_attempts + 1 => pc \in {"check", "done"}
         /\ pc = "done" =>
              /\ Count("send") = max_attempts + 1
              /\ Count("wait") = max_attempts
              /\ log[Len(log)].ev = "send"
              /\ result = [status |-> TooManyRequests, seq |-> max_attempts + 1]

\* C3 witness: a call with max_attempts >= 2 returned a 429 after all
\* attempts were answered 429.
C3_Witness ==
    /\ pc = "done"
    /\ max_attempts >= 2
    /\ AllTooManyRequests
    /\ result.status = TooManyRequests

\* C4: 429 on the first j attempts and another status on attempt j+1: that
\* (j+1)-th response is returned unchanged after exactly j+1 calls of the
\* wrapped transport and j waits; a non-429 answer is never retried.
C4_FirstOtherStatusReturned ==
    /\ \A i \in Events("send") :
         log[i].status # TooManyRequests => i = Len(log) /\ pc \in {"check", "done"}
    /\ (pc = "done" /\ result.status # TooManyRequests) =>
         LET j == Count("wait")
         IN  /\ j <= max_attempts
             /\ Count("send") = j + 1
             /\ Count("raise") = 0
             /\ result = [status |-> log[Len(log)].status, seq |-> j + 1]
             /\ result = response
             /\ \A i \in Events("send") :
                  i # Len(log) => log[i].status = TooManyRequests

\* C4 witness: two 429 answers, then a 503, which is returned.
C4_Witness ==
    /\ pc = "done"
    /\ result = [status |-> 503, seq |-> 3]
    /\ Count("wait") = 2

\* C5: a transport error raised on any attempt leaves handle_request
\* unchanged: no wait, no acquire and no call of the wrapped transport
\* follows it, and __exit__ does not swallow it.
C5_ErrorPropagates ==
    /\ \A i \in Events("raise") :
         /\ i = Len(log)
         /\ pc = "raised"
         /\ error = "TransportError"
         /\ result = NoResponse
    /\ pc = "raised" => Count("raise") = 1 /\ error = "TransportError"

\* C5 witness: the wrapped transport raised on a retry.
C5_Witness ==
    /\ pc = "raised"
    /\ Count("wait") >= 1
    /\ log[Len(log)].ev = "raise"

\* C6: every call of the wrapped transport is preceded by one completed
\* acquire made for it, after the previous answer and its retry wait; the
\* throttle has recorded as many timestamps as calls were sent.
C6_AcquireBeforeEverySend ==
    /\ Len(admitted) = sent + (IF pc = "send" THEN 1 ELSE 0)
    /\ \A i \in 1..Len(log) :
         /\ log[i].ev \in {"send", "raise"} => i > 1 /\ log[i - 1].ev = "acquire"
         /\ log[i].ev = "acquire" => i = 1 \/ log[i - 1].ev = "wait"
         /\ log[i].ev = "wait" =>
              i > 1 /\ log[i - 1] = Event("send", TooManyRequests)
    /\ pc \in {"check", "done", "raised"} =>
         Count("acquire") = Count("send") + Count("raise")

\* C6 witness: a call that retried twice has acquired three times.
C6_Witness ==
    /\ pc = "done"
    /\ Count("acquire") = 3
    /\ Count("wait") = 2
    /\ sent = 3

(***************************************************************************)
(* Two callers in __enter__ (SpecC)                                        *)
(***************************************************************************)
\* C8: the guarantees need mutual exclusion.  When whole acquires are
\* serialized the history never holds more than calls_per_second entries, no
\* more than calls_per_second calls are admitted within a second and no
\* caller fails; interleaved without a lock, such a state is reachable.
C8_SerializedIsSafe ==
    serial =>
        /\ Len(history) <= calls_per_second
        /\ Spaced(admitted, calls_per_second)
        /\ \A t \in Threads : tpc[t] # "raised"

\* C8 witness: without serialization the history holds more than
\* calls_per_second entries and more than calls_per_second calls were
\* admitted within one second.
C8_Witness ==
    /\ ~serial
    /\ Len(history) > calls_per_second
    /\ ~Spaced(admitted, calls_per_second)

====
